---- MODULE Spec2Model ----
(***************************************************************************)
(* Model of the worshipper-data deserializer (worshipper_data.py): the     *)
(* WorshipperData cursor over a byte file and the module-level script that *)
(* decodes the header, the initial colour sets and the skin records and    *)
(* then dumps the document as JSON.                                        *)
(*                                                                         *)
(* Bytes are integers 0..255.  TLC integers are 32-bit signed, so the      *)
(* generated buffers keep the high byte of every aligned word below 128;   *)
(* counts therefore range up to 2^31 - 1 instead of 2^32 - 1.              *)
(*                                                                         *)
(* A second part models the load generator (send_log.py): the Requester    *)
(* threads, the two queues they share with main, and main's collection     *)
(* loop.                                                                   *)
(***************************************************************************)
EXTENDS Integers, Sequences, FiniteSets, TLC

VARIABLES
    buf,          \* the bytes of the file self.f was opened on
    offset,       \* self.f.tell()
    pc,           \* position of the script (or "cursor" for free cursor use)
    err,          \* kind of the exception that ended the script, or "none"
    failpc,       \* the position at which the exception was raised
    call,         \* the last cursor call and its outcome (cursor use)
    short,        \* some self.f.read(n) returned fewer than n bytes
    unk,          \* module: the header words read so far
    set_count,    \* module: initial set count (None before it is read)
    isets_left,   \* iterations left of "for s in range(set_count)" (l.118)
    initial_sets, \* module: list of decoded colour sets
    last,         \* module: trailing u32 (None before it is read)
    skins,        \* module: list of decoded skins
    colors,       \* read_set: the dict under construction
    slots_left,   \* read_set: iterations left of "for _ in range(slot_count)"
    set_ret,      \* read_set: who called it, "initial" or "skin"
    setres,       \* the last completed read_set call: what it read and returned
    skin,         \* read_skin: the fields read so far
    names_left,   \* read_skin: iterations left of "for i in range(skin_count)"
    sets_left,    \* read_skin: iterations left of "for s in range(set_count)"
    output,       \* what json.dump wrote, or NoOutput
    lossy,        \* a dict key was written twice, or a float was a signalling NaN
    src           \* how the input buffer was built (input descriptor)

\* send_log.py
VARIABLES
    thread_count,    \* make_thread_pool's parameter: main passes THREADS
    log_lines,       \* the number of lines of the log file
    url_queue,       \* queue.Queue: the items not yet taken, oldest first
    out_queue,       \* queue.Queue: the items not yet taken, oldest first
    thread_pc,       \* position of each Requester thread in run()
    thread_url,      \* run(): url, per thread
    thread_resp,     \* run(): (resp.status_code, body_len), per thread
    main_pc,         \* position of main()
    requests_so_far, \* fill_url_queue: lines put on url_queue
    sentinels_put,   \* main: turns done of "for _ in range(THREADS)" (l.54)
    done,            \* main: the None items collected
    resps,           \* main: the deque of collected responses
    fetched_by,      \* per enqueued line: the threads that requested it
    sentinels_taken, \* per thread: the None items it took from url_queue
    nones_put        \* per thread: the None items it put on out_queue

loadVars == <<thread_count, log_lines, url_queue, out_queue, thread_pc, thread_url,
              thread_resp, main_pc, requests_so_far, sentinels_put, done, resps,
              fetched_by, sentinels_taken, nones_put>>

vars == <<buf, offset, pc, err, failpc, call, short, unk, set_count, isets_left,
          initial_sets, last, skins, colors, slots_left, set_ret, setres, skin,
          names_left, sets_left, output, lossy, src, loadVars>>

\* send_log.py has not been started
LoadIdle ==
    /\ thread_count = 0
    /\ log_lines = 0
    /\ url_queue = <<>>
    /\ out_queue = <<>>
    /\ thread_pc = <<>>
    /\ thread_url = <<>>
    /\ thread_resp = <<>>
    /\ main_pc = "idle"
    /\ requests_so_far = 0
    /\ sentinels_put = 0
    /\ done = 0
    /\ resps = <<>>
    /\ fetched_by = <<>>
    /\ sentinels_taken = <<>>
    /\ nones_put = <<>>

None == -1

HeaderWords == 11

(***************************************************************************)
(* Small helpers                                                           *)
(***************************************************************************)
Min(a, b) == IF a <= b THEN a ELSE b

RECURSIVE Zeros(_)
Zeros(n) == IF n = 0 THEN <<>> ELSE <<0>> \o Zeros(n - 1)

RECURSIVE Concat(_)
Concat(ss) == IF ss = <<>> THEN <<>> ELSE Head(ss) \o Concat(Tail(ss))

(***************************************************************************)
(* The file object: read(n) returns at most n bytes and never fails; it    *)
(* returns fewer (possibly none) when the file ends first.                 *)
(***************************************************************************)
\* (variant: the position moves by n whatever was read)
f_read_past_end(b, o, n) ==
    [data |-> SubSeq(b, o + 1, Min(Len(b), o + n)), off |-> o + n]

f_read(b, o, n) ==
    IF n > Len(b) - o
    THEN [data |-> SubSeq(b, o + 1, Len(b)), off |-> Len(b)]
    ELSE [data |-> SubSeq(b, o + 1, o + n), off |-> o + n]

\* (variant: "no whole word is left" instead of "nothing is left")
at_eof_at_or_past(b, o) == o + 4 > Len(b)

\* self.f.tell() == self.length

at_eof(b, o) == o = Len(b)

\* struct.unpack("<L", d) on exactly four bytes
unpack_u32(d) == d[1] + 256 * d[2] + 65536 * d[3] + 16777216 * d[4]

\* struct.unpack("<f", d) on exactly four bytes: the IEEE-754 single, kept
\* as its sign, biased exponent and fraction fields.  The single is widened
\* to a Python float (a double), which turns a signalling NaN into the quiet
\* NaN with the same payload (the top fraction bit is set).
unpack_f32(d) ==
    LET e == (d[4] % 128) * 2 + d[3] \div 128
        f == (d[3] % 128) * 65536 + d[2] * 256 + d[1]
    IN  [sign     |-> d[4] \div 128,
         exponent |-> e,
         fraction |-> IF e = 255 /\ f # 0 /\ f < 4194304 THEN f + 4194304 ELSE f]

Ok(v, o, sh)   == [ok |-> TRUE,  err |-> "none", val |-> v, off |-> o, short |-> sh]
Exc(kind, o, sh) == [ok |-> FALSE, err |-> kind,   val |-> 0, off |-> o, short |-> sh]

\* F applied to the value of v: v is evaluated once, as a Python local is
Bind(v, F(_)) == CHOOSE y \in {F(x) : x \in {v}} : TRUE

\* (variant: a short read is zero-filled instead of raising)
read_u32_zero_fill(b, o) ==
    Bind(f_read(b, o, 4), LAMBDA r :
        Ok(unpack_u32(r.data \o Zeros(4 - Len(r.data))), r.off, Len(r.data) < 4))

read_u32(b, o) ==
    Bind(f_read(b, o, 4), LAMBDA r :
        IF Len(r.data) # 4
        THEN Exc("BufferUnderrun", r.off, TRUE)
        ELSE Ok(unpack_u32(r.data), r.off, FALSE))

read_f32(b, o) ==
    Bind(f_read(b, o, 4), LAMBDA r :
        IF Len(r.data) # 4
        THEN Exc("BufferUnderrun", r.off, TRUE)
        ELSE Ok(unpack_f32(r.data), r.off, FALSE))

(***************************************************************************)
(* bytes.decode("utf-8"), strict: the code points, or a failure.           *)
(***************************************************************************)
IsCont(x) == x >= 128 /\ x <= 191

\* the number of bytes of the UTF-8 sequence that the lead byte b1 opens
\* (0: b1 opens none)
SeqLen(b1) ==
    IF b1 < 128 THEN 1
    ELSE IF b1 >= 194 /\ b1 <= 223 THEN 2
    ELSE IF b1 >= 224 /\ b1 <= 239 THEN 3
    ELSE IF b1 >= 240 /\ b1 <= 244 THEN 4
    ELSE 0

\* the code points of dd, or the marker <<-1>> when the bytes are not
\* well-formed UTF-8.  UTF-8 is self-synchronising: the bytes are well
\* formed iff every byte that is not a continuation byte opens a whole
\* sequence and every continuation byte lies inside the sequence opened by
\* the nearest such byte before it.
utf8_code_points(dd) ==
    Bind(dd, LAMBDA d :
    LET n(i) == SeqLen(d[i])
        wellFormed(i) ==
            /\ n(i) > 0
            /\ Len(d) >= i + n(i) - 1
            /\ \A j \in (i + 1)..(i + n(i) - 1) : IsCont(d[j])
            /\ (d[i] = 224 => d[i + 1] >= 160)
            /\ (d[i] = 237 => d[i + 1] <= 159)
            /\ (d[i] = 240 => d[i + 1] >= 144)
            /\ (d[i] = 244 => d[i + 1] <= 143)
        covered(i) ==
            \E s \in 1..(i - 1) :
                /\ i - s <= 3
                /\ ~IsCont(d[s])
                /\ n(s) > i - s
                /\ \A j \in (s + 1)..i : IsCont(d[j])
        cp(i) ==
            IF n(i) = 1 THEN d[i]
            ELSE IF n(i) = 2 THEN (d[i] - 192) * 64 + (d[i + 1] - 128)
            ELSE IF n(i) = 3 THEN (d[i] - 224) * 4096 + (d[i + 1] - 128) * 64
                                  + (d[i + 2] - 128)
            ELSE (d[i] - 240) * 262144 + (d[i + 1] - 128) * 4096
                 + (d[i + 2] - 128) * 64 + (d[i + 3] - 128)
    IN  IF \E i \in 1..Len(d) : IF IsCont(d[i]) THEN ~covered(i) ELSE ~wellFormed(i)
        THEN <<-1>>
        ELSE Bind({i \in 1..Len(d) : ~IsCont(d[i])}, LAMBDA starts :
             [k \in 1..Cardinality(starts) |->
                 cp(CHOOSE i \in starts : Cardinality({j \in starts : j <= i}) = k)]))

utf8_decode(d) ==
    Bind(utf8_code_points(d), LAMBDA cps :
        IF cps # <<>> /\ cps[Len(cps)] = -1
        THEN [ok |-> FALSE, cps |-> <<>>]
        ELSE [ok |-> TRUE, cps |-> cps])

PadWanted(length) == IF length % 4 # 0 THEN 4 - (length % 4) ELSE 0

\* (variant: the padding is not read)
read_string_no_padding(b, o) ==
    Bind(read_u32(b, o), LAMBDA l :
        IF ~l.ok THEN l
        ELSE
        Bind(f_read(b, l.off, l.val), LAMBDA s :
        Bind(utf8_decode(s.data), LAMBDA dec :
            IF ~dec.ok THEN Exc("InvalidEncoding", s.off, Len(s.data) < l.val)
            ELSE Ok(dec.cps, s.off, Len(s.data) < l.val))))

\* (variant: the padding is read but not checked)
read_string_unchecked_padding(b, o) ==
    Bind(read_u32(b, o), LAMBDA l :
        IF ~l.ok THEN l
        ELSE
        Bind(f_read(b, l.off, l.val), LAMBDA s :
        Bind(f_read(b, s.off, PadWanted(l.val)), LAMBDA padding :
        Bind(utf8_decode(s.data), LAMBDA dec :
        Bind(Len(s.data) < l.val \/ Len(padding.data) < PadWanted(l.val), LAMBDA sh :
            IF ~dec.ok THEN Exc("InvalidEncoding", padding.off, sh)
            ELSE Ok(dec.cps, padding.off, sh))))))

\* read_string (l.22-30): length = l.val, s, padding as in the source; the
\* padding is read (only if length % 4 != 0) and checked before s is decoded
read_string(b, o) ==
    Bind(read_u32(b, o), LAMBDA l :
        IF ~l.ok THEN l
        ELSE
        Bind(f_read(b, l.off, l.val), LAMBDA s :
        Bind(f_read(b, s.off, PadWanted(l.val)), LAMBDA padding :
        Bind(Len(s.data) < l.val \/ Len(padding.data) < PadWanted(l.val), LAMBDA sh :
            IF \E i \in 1..Len(padding.data) : padding.data[i] # 0
            THEN Exc("InvalidPadding", padding.off, sh)
            ELSE Bind(utf8_decode(s.data), LAMBDA dec :
                     IF ~dec.ok THEN Exc("InvalidEncoding", padding.off, sh)
                     ELSE Ok(dec.cps, padding.off, sh))))))

\* four read_f32 calls, evaluated left to right (l.37-40 and l.47)
read_f32x4(b, o) ==
    Bind(read_f32(b, o), LAMBDA r1 : IF ~r1.ok THEN r1 ELSE
    Bind(read_f32(b, r1.off), LAMBDA r2 : IF ~r2.ok THEN r2 ELSE
    Bind(read_f32(b, r2.off), LAMBDA r3 : IF ~r3.ok THEN r3 ELSE
    Bind(read_f32(b, r3.off), LAMBDA r4 : IF ~r4.ok THEN r4 ELSE
        Ok(<<r1.val, r2.val, r3.val, r4.val>>, r4.off, FALSE)))))

(***************************************************************************)
(* Python dict: insertion-ordered; assigning to a key that is present      *)
(* replaces the value in place, assigning to a new key appends.            *)
(***************************************************************************)
HasKey(d, k) == \E i \in 1..Len(d) : d[i].k = k

dict_set(d, k, v) ==
    IF HasKey(d, k)
    THEN [i \in 1..Len(d) |-> IF d[i].k = k THEN [k |-> k, v |-> v] ELSE d[i]]
    ELSE Append(d, [k |-> k, v |-> v])

\* the four floats at offset o include a signalling NaN
IsSNaN(d) ==
    LET e == (d[4] % 128) * 2 + d[3] \div 128
        f == (d[3] % 128) * 65536 + d[2] * 256 + d[1]
    IN  e = 255 /\ f # 0 /\ f < 4194304

HasSNaN(b, o) ==
    \E i \in 0..3 : o + 4 * i + 4 <= Len(b) /\ IsSNaN(SubSeq(b, o + 4 * i + 1, o + 4 * i + 4))

\* the str "last"
KeyLast == <<108, 97, 115, 116>>

\* (variant: r and g exchanged)
ColorDictSwapped(c) == [kind |-> "dict", r |-> c[2], g |-> c[1], b |-> c[3], a |-> c[4]]

\* {"r": r, "g": g, "b": b, "a": a} (l.41-46) and the 4-tuple of l.47
ColorDict(c)  == [kind |-> "dict",  r |-> c[1], g |-> c[2], b |-> c[3], a |-> c[4]]
ColorTuple(c) == [kind |-> "tuple", r |-> c[1], g |-> c[2], b |-> c[3], a |-> c[4]]


\* n consecutive read_u32 calls from offset o, after the values acc
\* (l.52-55, l.58)
RECURSIVE read_u32_n(_, _, _, _)
read_u32_n(b, o, n, acc) ==
    IF n = 0 THEN Ok(acc, o, FALSE)
    ELSE Bind(read_u32(b, o), LAMBDA r :
             IF ~r.ok THEN r
             ELSE read_u32_n(b, r.off, n - 1, Append(acc, r.val)))

(***************************************************************************)
(* The script.  An uncaught exception ends it where it is raised: nothing  *)
(* later runs, in particular not json.dump.                                *)
(***************************************************************************)
NoOutput == [written |-> FALSE, global |-> <<>>, skins |-> <<>>]

NoColor == [kind |-> "none", r |-> 0, g |-> 0, b |-> 0, a |-> 0]

NoSetRes == [done |-> FALSE, n |-> 0, log |-> <<>>, lastc |-> NoColor,
             colors |-> <<>>, off0 |-> 0, off1 |-> 0]

NoSkin == [name |-> <<>>, zone |-> 0, is_blocked |-> 0, is_toww |-> 0,
           is_boss |-> 0, skins |-> <<>>, sets |-> <<>>]

NoCall == [op |-> "none", off0 |-> 0, ok |-> TRUE, err |-> "none",
           val |-> 0, short |-> FALSE]

dataVars == <<unk, set_count, isets_left, initial_sets, last, skins, colors,
              slots_left, set_ret, setres, skin, names_left, sets_left, output, lossy>>

Raise(r, sh) ==
    /\ pc' = "failed"
    /\ failpc' = pc
    /\ err' = r.err
    /\ offset' = r.off
    /\ short' = (short \/ sh \/ r.short)
    /\ UNCHANGED dataVars

Step(r, next) ==
    /\ pc' = next
    /\ offset' = r.off
    /\ short' = (short \/ r.short)
    /\ UNCHANGED <<err, failpc>>

\* l.112-114: for i in range(11): unk.append(w.read_u32())
HeaderLoop ==
    /\ pc = "header"
    /\ \E r \in {read_u32(buf, offset)} :
           IF ~r.ok THEN Raise(r, FALSE)
           ELSE /\ unk' = Append(unk, r.val)
                /\ Step(r, IF Len(unk) + 1 = HeaderWords THEN "set_count" ELSE "header")
                /\ UNCHANGED <<set_count, isets_left, initial_sets, last, skins, colors,
                               slots_left, set_ret, setres, skin, names_left,
                               sets_left, output, lossy>>
    /\ UNCHANGED <<buf, call, src, loadVars>>

\* l.116-117: set_count = w.read_u32()
InitialSetCount ==
    /\ pc = "set_count"
    /\ \E r \in {read_u32(buf, offset)} :
           IF ~r.ok THEN Raise(r, FALSE)
           ELSE /\ set_count' = r.val
                /\ isets_left' = r.val
                /\ Step(r, "initial_sets")
                /\ UNCHANGED <<unk, initial_sets, last, skins, colors, slots_left,
                               set_ret, setres, skin, names_left, sets_left, output, lossy>>
    /\ UNCHANGED <<buf, call, src, loadVars>>

\* l.118-119: one turn of "for s in range(set_count)": call read_set, or leave
InitialSetsLoop ==
    /\ pc = "initial_sets"
    /\ IF isets_left > 0
       THEN /\ pc' = "read_set"
            /\ set_ret' = "initial"
            /\ isets_left' = isets_left - 1
       ELSE /\ pc' = "last"
            /\ UNCHANGED <<set_ret, isets_left>>
    /\ UNCHANGED <<buf, offset, err, failpc, call, short, unk, set_count,
                   initial_sets, last, skins, colors, slots_left, setres, skin,
                   names_left, sets_left, output, lossy, src, loadVars>>

\* l.33-34: colors = {}; slot_count = self.read_u32()
ReadSetBegin ==
    /\ pc = "read_set"
    /\ \E r \in {read_u32(buf, offset)} :
           IF ~r.ok THEN Raise(r, FALSE)
           ELSE /\ colors' = <<>>
                /\ slots_left' = r.val
                /\ setres' = [NoSetRes EXCEPT !.n = r.val, !.off0 = offset]
                /\ Step(r, "set_slots")
                /\ UNCHANGED <<unk, set_count, isets_left, initial_sets, last, skins,
                               set_ret, skin, names_left, sets_left, output, lossy>>
    /\ UNCHANGED <<buf, call, src, loadVars>>

\* l.35-46: one turn of the slot loop
ReadSetSlot ==
    /\ pc = "set_slots"
    /\ slots_left > 0
    /\ \E s \in {read_string(buf, offset)} :
       \E c \in {read_f32x4(buf, s.off)} :
           IF ~s.ok THEN Raise(s, FALSE)
           ELSE IF ~c.ok THEN Raise(c, s.short)
           ELSE /\ colors' = dict_set(colors, s.val, ColorDict(c.val))
                /\ slots_left' = slots_left - 1
                /\ setres' = [setres EXCEPT
                                !.log = Append(@, [k |-> s.val, v |-> ColorDict(c.val)])]
                /\ lossy' = (lossy \/ HasKey(colors, s.val) \/ HasSNaN(buf, s.off))
                /\ Step([c EXCEPT !.short = s.short], "set_slots")
                /\ UNCHANGED <<unk, set_count, isets_left, initial_sets, last, skins,
                               set_ret, skin, names_left, sets_left, output>>
    /\ UNCHANGED <<buf, call, src, loadVars>>

\* l.47-48: colors["last"] = four floats; return colors (appended by the
\* caller: l.119 or l.65)
ReadSetLast ==
    /\ pc = "set_slots"
    /\ slots_left = 0
    /\ \E c \in {read_f32x4(buf, offset)} :
           IF ~c.ok THEN Raise(c, FALSE)
           ELSE LET result == dict_set(colors, KeyLast, ColorTuple(c.val))
                IN  /\ colors' = result
                    /\ setres' = [setres EXCEPT !.done = TRUE, !.colors = result,
                                     !.lastc = ColorTuple(c.val), !.off1 = c.off]
                    /\ lossy' = (lossy \/ HasKey(colors, KeyLast) \/ HasSNaN(buf, offset))
                    /\ IF set_ret = "initial"
                       THEN /\ initial_sets' = Append(initial_sets, result)
                            /\ Step(c, "initial_sets")
                            /\ UNCHANGED skin
                       ELSE /\ skin' = [skin EXCEPT !.sets = Append(@, result)]
                            /\ Step(c, "skin_sets")
                            /\ UNCHANGED initial_sets
                    /\ UNCHANGED <<unk, set_count, isets_left, last, skins, slots_left,
                                   set_ret, names_left, sets_left, output>>
    /\ UNCHANGED <<buf, call, src, loadVars>>

\* l.120: last = w.read_u32()
ReadLast ==
    /\ pc = "last"
    /\ \E r \in {read_u32(buf, offset)} :
           IF ~r.ok THEN Raise(r, FALSE)
           ELSE /\ last' = r.val
                /\ Step(r, "skins")
                /\ UNCHANGED <<unk, set_count, isets_left, initial_sets, skins, colors,
                               slots_left, set_ret, setres, skin, names_left,
                               sets_left, output, lossy>>
    /\ UNCHANGED <<buf, call, src, loadVars>>

\* l.123-126: while True: if w.at_eof(): break; else call read_skin
SkinLoop ==
    /\ pc = "skins"
    /\ pc' = IF at_eof(buf, offset) THEN "dump" ELSE "read_skin"
    /\ UNCHANGED <<buf, offset, err, failpc, call, short, unk, set_count, isets_left,
                   initial_sets, last, skins, colors, slots_left, set_ret, setres,
                   skin, names_left, sets_left, output, lossy, src, loadVars>>

\* l.51-58: name, zone, is_blocked, is_toww, is_boss, skins = [], skin_count
ReadSkinHead ==
    /\ pc = "read_skin"
    /\ \E s \in {read_string(buf, offset)} :
       \E w \in {read_u32_n(buf, s.off, 5, <<>>)} :
           IF ~s.ok THEN Raise(s, FALSE)
           ELSE IF ~w.ok THEN Raise(w, s.short)
           ELSE /\ skin' = [name |-> s.val, zone |-> w.val[1], is_blocked |-> w.val[2],
                            is_toww |-> w.val[3], is_boss |-> w.val[4],
                            skins |-> <<>>, sets |-> <<>>]
                /\ names_left' = w.val[5]
                /\ Step([w EXCEPT !.short = s.short], "skin_names")
                /\ UNCHANGED <<unk, set_count, isets_left, initial_sets, last, skins,
                               colors, slots_left, set_ret, setres, sets_left, output, lossy>>
    /\ UNCHANGED <<buf, call, src, loadVars>>

\* l.59-60: one turn of "for i in range(skin_count)"
ReadSkinName ==
    /\ pc = "skin_names"
    /\ names_left > 0
    /\ \E s \in {read_string(buf, offset)} :
           IF ~s.ok THEN Raise(s, FALSE)
           ELSE /\ skin' = [skin EXCEPT !.skins = Append(@, s.val)]
                /\ names_left' = names_left - 1
                /\ Step(s, "skin_names")
                /\ UNCHANGED <<unk, set_count, isets_left, initial_sets, last, skins,
                               colors, slots_left, set_ret, setres, sets_left, output, lossy>>
    /\ UNCHANGED <<buf, call, src, loadVars>>

\* l.62-63: sets = []; set_count = w.read_u32()  (w is the same cursor as self)
ReadSkinSetCount ==
    /\ pc = "skin_names"
    /\ names_left = 0
    /\ \E r \in {read_u32(buf, offset)} :
           IF ~r.ok THEN Raise(r, FALSE)
           ELSE /\ sets_left' = r.val
                /\ Step(r, "skin_sets")
                /\ UNCHANGED <<unk, set_count, isets_left, initial_sets, last, skins,
                               colors, slots_left, set_ret, setres, skin, names_left,
                               output, lossy>>
    /\ UNCHANGED <<buf, call, src, loadVars>>

\* l.64-65: one turn of "for s in range(set_count)": call read_set
SkinSetsLoop ==
    /\ pc = "skin_sets"
    /\ sets_left > 0
    /\ pc' = "read_set"
    /\ set_ret' = "skin"
    /\ sets_left' = sets_left - 1
    /\ UNCHANGED <<buf, offset, err, failpc, call, short, unk, set_count, isets_left,
                   initial_sets, last, skins, colors, slots_left, setres, skin,
                   names_left, output, lossy, src, loadVars>>

\* l.67-77 and l.126: last = self.read_u32(); return the skin; skins.append
ReadSkinLast ==
    /\ pc = "skin_sets"
    /\ sets_left = 0
    /\ \E r \in {read_u32(buf, offset)} :
           IF ~r.ok THEN Raise(r, FALSE)
           ELSE /\ skins' = Append(skins,
                      [name |-> skin.name, zone |-> skin.zone,
                       is_blocked |-> skin.is_blocked, is_toww |-> skin.is_toww,
                       is_boss |-> skin.is_boss, skins |-> skin.skins,
                       sets |-> skin.sets, last |-> r.val])
                /\ Step(r, "skins")
                /\ UNCHANGED <<unk, set_count, isets_left, initial_sets, last, colors,
                               slots_left, set_ret, setres, skin, names_left,
                               sets_left, output, lossy>>
    /\ UNCHANGED <<buf, call, src, loadVars>>

\* (variant: the dump also runs after an exception, with what was decoded)
DumpAlsoAfterFailure ==
    /\ pc \in {"dump", "failed"}
    /\ ~output.written
    /\ output' = [written |-> TRUE, global |-> initial_sets, skins |-> skins]
    /\ pc' = IF pc = "dump" THEN "done" ELSE pc
    /\ UNCHANGED <<buf, offset, err, failpc, call, short, unk, set_count, isets_left,
                   initial_sets, last, skins, colors, slots_left, set_ret, setres,
                   skin, names_left, sets_left, lossy, src, loadVars>>

\* l.130-134: json.dump({"global": initial_sets, "skins": skins}, data)
Dump ==
    /\ pc = "dump"
    /\ output' = [written |-> TRUE, global |-> initial_sets, skins |-> skins]
    /\ pc' = "done"
    /\ UNCHANGED <<buf, offset, err, failpc, call, short, unk, set_count, isets_left,
                   initial_sets, last, skins, colors, slots_left, set_ret, setres,
                   skin, names_left, sets_left, lossy, src, loadVars>>

Next ==
    \/ HeaderLoop
    \/ InitialSetCount
    \/ InitialSetsLoop
    \/ ReadSetBegin
    \/ ReadSetSlot
    \/ ReadSetLast
    \/ ReadLast
    \/ SkinLoop
    \/ ReadSkinHead
    \/ ReadSkinName
    \/ ReadSkinSetCount
    \/ SkinSetsLoop
    \/ ReadSkinLast
    \/ Dump


(***************************************************************************)
(* Input files.  A stream is laid out by the grammar the script reads      *)
(* (strings as length, bytes, zero padding to a multiple of four), then    *)
(* left whole, cut short at any length, followed by 1..3 leftover bytes,   *)
(* or changed in one byte.                                                 *)
(***************************************************************************)
MaxSlots == 3
MaxSkins == 2

EncU32(v) == <<v % 256, (v \div 256) % 256, (v \div 65536) % 256, v \div 16777216>>

PadLen(n) == (4 - (n % 4)) % 4

EncBytes(s) == EncU32(Len(s)) \o s \o Zeros(PadLen(Len(s)))

\* IEEE-754 singles as little-endian bytes: 1.0, 0.5, 0.0
F32One  == <<0, 0, 128, 63>>
F32Half == <<0, 0, 0, 63>>
F32Zero == <<0, 0, 0, 0>>

SlotColorBytes(i) == <<i, 0, 0, 0>> \o F32Half \o F32Zero \o F32One
TrailColorBytes   == F32One \o F32Half \o F32Half \o F32One
\* a colour whose alpha is the signalling NaN 0x7F800001
F32SNaN == <<1, 0, 128, 127>>
SNaNColorBytes    == F32One \o F32Half \o F32Half \o F32SNaN

NameA     == <<97>>
NameLast  == <<108, 97, 115, 116>>
NameEAcute == <<195, 169>>
NameFive  == <<97, 98, 99, 100, 101>>

SlotNameBytes == {NameA, NameLast, NameEAcute}

SetShapeOf(names) ==
    [slots |-> [i \in 1..Len(names) |-> [name |-> names[i], color |-> SlotColorBytes(i)]],
     last  |-> TrailColorBytes]

\* every choice of names for fewer than MaxSlots slots; the sets of MaxSlots
\* slots end with the name they begin with (a name repeated around others)
SetShapes ==
    UNION {{SetShapeOf(ns) : ns \in [1..n -> SlotNameBytes]} : n \in 0..(MaxSlots - 1)}
    \cup {SetShapeOf(ns) : ns \in {x \in [1..MaxSlots -> SlotNameBytes] : x[1] = x[MaxSlots]}}

EncSetShape(st) ==
    EncU32(Len(st.slots))
    \o Concat([i \in 1..Len(st.slots) |->
                  EncBytes(st.slots[i].name) \o st.slots[i].color])
    \o st.last

PlainSkin == [name |-> NameFive, names |-> <<>>, sets |-> <<>>]
RichSkin  == [name |-> NameEAcute, names |-> <<NameA>>,
              sets |-> <<SetShapeOf(<<NameA>>)>>]

SkinShapes == {PlainSkin, RichSkin}

EncSkinShape(sk) ==
    EncBytes(sk.name) \o EncU32(3) \o EncU32(1) \o EncU32(0) \o EncU32(1)
    \o EncU32(Len(sk.names))
    \o Concat([i \in 1..Len(sk.names) |-> EncBytes(sk.names[i])])
    \o EncU32(Len(sk.sets))
    \o Concat([i \in 1..Len(sk.sets) |-> EncSetShape(sk.sets[i])])
    \o EncU32(7)

DocShapes ==
    {[sets |-> <<st>>, skins |-> <<>>] : st \in SetShapes}
    \cup {[sets |-> <<>>, skins |-> ss] :
             ss \in UNION {[1..k -> SkinShapes] : k \in 0..MaxSkins}}
    \cup {[sets |-> <<SetShapeOf(<<NameA>>), SetShapeOf(<<>>)>>, skins |-> <<RichSkin>>]}
    \cup {[sets |-> <<[SetShapeOf(<<NameA>>) EXCEPT !.last = SNaNColorBytes]>>,
           skins |-> <<>>]}

EncDocShape(d) ==
    Concat([i \in 1..HeaderWords |-> EncU32(i)])
    \o EncU32(Len(d.sets))
    \o Concat([i \in 1..Len(d.sets) |-> EncSetShape(d.sets[i])])
    \o EncU32(5)
    \o Concat([i \in 1..Len(d.skins) |-> EncSkinShape(d.skins[i])])

Leftovers == UNION {[1..t -> {0, 97}] : t \in 1..3}

Inputs ==
    UNION {
        LET e == EncDocShape(d)
            base == [b |-> e, kind |-> "whole", sets |-> Len(d.sets),
                     k |-> Len(d.skins), t |-> 0]
        IN  {base}
            \cup {[base EXCEPT !.b = e \o x, !.kind = "leftover", !.t = Len(x)] :
                      x \in Leftovers}
            \cup {[base EXCEPT !.b = SubSeq(e, 1, n), !.kind = "cut"] :
                      n \in 0..(Len(e) - 1)}
            \cup {[base EXCEPT !.b = [e EXCEPT ![p] = IF p % 4 = 0 THEN 1 ELSE 128],
                               !.kind = "changed"] : p \in 1..Len(e)}
        : d \in DocShapes}

\* l.110: w = WorshipperData(path): the file is open at position 0
Init ==
    /\ \E i \in Inputs : buf = i.b /\ src = [kind |-> i.kind, sets |-> i.sets,
                                             k |-> i.k, t |-> i.t]
    /\ offset = 0
    /\ pc = "header"
    /\ err = "none"
    /\ failpc = "none"
    /\ call = NoCall
    /\ short = FALSE
    /\ unk = <<>>
    /\ set_count = None
    /\ isets_left = 0
    /\ initial_sets = <<>>
    /\ last = None
    /\ skins = <<>>
    /\ colors = <<>>
    /\ slots_left = 0
    /\ set_ret = "none"
    /\ setres = NoSetRes
    /\ skin = NoSkin
    /\ names_left = 0
    /\ sets_left = 0
    /\ output = NoOutput
    /\ lossy = FALSE
    /\ LoadIdle

Spec == Init /\ [][Next]_vars

\* the script runs on until it ends: nothing suspends it
FairSpec == Spec /\ WF_vars(Next)


(***************************************************************************)
(* The cursor on its own: any sequence of calls on one WorshipperData      *)
(* object.  A call that raised leaves the object usable.                   *)
(***************************************************************************)
MaxStrLen == 5

Ascii(n) == SubSeq(<<97, 98, 99, 100, 101, 102, 103, 104>>, 1, n)

StrContents(n) ==
    {Ascii(n)}
    \cup (IF n >= 1 THEN {<<128>> \o Ascii(n - 1)} ELSE {})
    \cup (IF n >= 2 THEN {NameEAcute \o Ascii(n - 2)} ELSE {})

StrRecords ==
    UNION {{EncU32(n) \o c \o p : c \in StrContents(n), p \in [1..PadLen(n) -> {0, 1}]} :
              n \in 0..MaxStrLen}

CursorBuffers ==
    UNION {{SubSeq(r \o x, 1, n) : n \in 0..Len(r \o x)} :
              r \in StrRecords, x \in {<<>>, EncU32(2)}}

\* l.7-11: the object right after construction
InitCursor ==
    /\ buf \in CursorBuffers
    /\ src = [kind |-> "cursor", sets |-> 0, k |-> 0, t |-> 0]
    /\ offset = 0
    /\ pc = "cursor"
    /\ err = "none"
    /\ failpc = "none"
    /\ call = NoCall
    /\ short = FALSE
    /\ unk = <<>>
    /\ set_count = None
    /\ isets_left = 0
    /\ initial_sets = <<>>
    /\ last = None
    /\ skins = <<>>
    /\ colors = <<>>
    /\ slots_left = 0
    /\ set_ret = "none"
    /\ setres = NoSetRes
    /\ skin = NoSkin
    /\ names_left = 0
    /\ sets_left = 0
    /\ output = NoOutput
    /\ lossy = FALSE
    /\ LoadIdle

Called(op, r) ==
    /\ call' = [op |-> op, off0 |-> offset, ok |-> r.ok, err |-> r.err,
                val |-> r.val, short |-> r.short]
    /\ offset' = r.off
    /\ short' = (short \/ r.short)
    /\ UNCHANGED <<buf, pc, err, failpc, src, loadVars>>
    /\ UNCHANGED dataVars

CallReadU32 ==
    /\ pc = "cursor"
    /\ Called("read_u32", read_u32(buf, offset))

CallReadF32 ==
    /\ pc = "cursor"
    /\ Called("read_f32", read_f32(buf, offset))

CallReadString ==
    /\ pc = "cursor"
    /\ Called("read_string", read_string(buf, offset))

CallAtEof ==
    /\ pc = "cursor"
    /\ Called("at_eof", Ok(at_eof(buf, offset), offset, FALSE))

NextCursor ==
    \/ CallReadU32
    \/ CallReadF32
    \/ CallReadString
    \/ CallAtEof

SpecCursor == InitCursor /\ [][NextCursor]_vars


(***************************************************************************)
(* The load generator (send_log.py).  main starts thread_count Requester   *)
(* threads, puts the lines of the log on url_queue, then one None per      *)
(* thread, and collects from out_queue until it has counted one None per   *)
(* thread.  main passes THREADS = 8 (l.9, l.51); the protocol is the same   *)
(* for every thread count and is run here for 1..MaxThreads threads.       *)
(* queue.Queue is FIFO and its get and put are atomic (one lock).          *)
(* A line of the log is identified by its number.                          *)
(***************************************************************************)
MaxThreads == 2
MaxLines == 2

REQUESTS == 100000

\* the items of the two queues: None, a line of the log (a str), a response
\* tuple
NoneItem == [kind |-> "None", line |-> 0, status_code |-> 0, body_len |-> 0]
UrlItem(n) == [kind |-> "str", line |-> n, status_code |-> 0, body_len |-> 0]
RespItem(st, len) == [kind |-> "tuple", line |-> 0, status_code |-> st, body_len |-> len]

decoderVars == <<buf, offset, pc, err, failpc, call, short, src, dataVars>>

Threads == DOMAIN thread_pc

\* what httpx.get / resp.read() can do (l.26-27): raise (connection
\* refused, timeout, ...), or give a response (status_code, body_len)
Outcomes ==
    {[raise |-> TRUE, resp |-> NoneItem],
     [raise |-> FALSE, resp |-> RespItem(200, 1)],
     [raise |-> FALSE, resp |-> RespItem(404, 0)]}

InitLoad ==
    /\ thread_count \in 1..MaxThreads
    /\ log_lines \in 0..MaxLines
    /\ url_queue = <<>>
    /\ out_queue = <<>>
    /\ thread_pc = <<>>
    /\ thread_url = <<>>
    /\ thread_resp = <<>>
    /\ main_pc = "make_thread_pool"
    /\ requests_so_far = 0
    /\ sentinels_put = 0
    /\ done = 0
    /\ resps = <<>>
    /\ fetched_by = [u \in 1..log_lines |-> <<>>]
    /\ sentinels_taken = <<>>
    /\ nones_put = <<>>
    /\ buf = <<>>
    /\ src = [kind |-> "none", sets |-> 0, k |-> 0, t |-> 0]
    /\ offset = 0
    /\ pc = "unused"
    /\ err = "none"
    /\ failpc = "none"
    /\ call = NoCall
    /\ short = FALSE
    /\ unk = <<>>
    /\ set_count = None
    /\ isets_left = 0
    /\ initial_sets = <<>>
    /\ last = None
    /\ skins = <<>>
    /\ colors = <<>>
    /\ slots_left = 0
    /\ set_ret = "none"
    /\ setres = NoSetRes
    /\ skin = NoSkin
    /\ names_left = 0
    /\ sets_left = 0
    /\ output = NoOutput
    /\ lossy = FALSE

\* l.31-37 (called at l.51): both queues are created empty and every thread
\* is started; each begins run() at the get of l.22
make_thread_pool ==
    /\ main_pc = "make_thread_pool"
    /\ thread_pc' = [w \in 1..thread_count |-> "get"]
    /\ thread_url' = [w \in 1..thread_count |-> NoneItem]
    /\ thread_resp' = [w \in 1..thread_count |-> NoneItem]
    /\ sentinels_taken' = [w \in 1..thread_count |-> 0]
    /\ nones_put' = [w \in 1..thread_count |-> 0]
    /\ url_queue' = <<>>
    /\ out_queue' = <<>>
    /\ main_pc' = "fill_url_queue"
    /\ UNCHANGED <<thread_count, log_lines, requests_so_far, sentinels_put, done,
                   resps, fetched_by>>
    /\ UNCHANGED decoderVars

\* l.40-47 (called at l.52 with request_count = REQUESTS): one turn of
\* "for line in open(log_name)": put the line, count it, break at
\* request_count; the loop ends with the file
fill_url_queue ==
    /\ main_pc = "fill_url_queue"
    /\ IF requests_so_far < log_lines
       THEN /\ url_queue' = Append(url_queue, UrlItem(requests_so_far + 1))
            /\ requests_so_far' = requests_so_far + 1
            /\ main_pc' = IF requests_so_far + 1 = REQUESTS
                          THEN "put_sentinels" ELSE "fill_url_queue"
       ELSE /\ main_pc' = "put_sentinels"
            /\ UNCHANGED <<url_queue, requests_so_far>>
    /\ UNCHANGED <<thread_count, log_lines, out_queue, thread_pc, thread_url,
                   thread_resp, sentinels_put, done, resps, fetched_by,
                   sentinels_taken, nones_put>>
    /\ UNCHANGED decoderVars

\* l.54-58: one turn of "for _ in range(THREADS): url_queue.put(None)";
\* after the last, resps = deque() and done = 0
PutSentinels ==
    /\ main_pc = "put_sentinels"
    /\ IF sentinels_put < thread_count
       THEN /\ url_queue' = Append(url_queue, NoneItem)
            /\ sentinels_put' = sentinels_put + 1
            /\ UNCHANGED <<main_pc, done, resps>>
       ELSE /\ main_pc' = "collect"
            /\ done' = 0
            /\ resps' = <<>>
            /\ UNCHANGED <<url_queue, sentinels_put>>
    /\ UNCHANGED <<thread_count, log_lines, out_queue, thread_pc, thread_url,
                   thread_resp, requests_so_far, fetched_by, sentinels_taken,
                   nones_put>>
    /\ UNCHANGED decoderVars

\* l.70-72: the responses older than WINDOW are dropped from the left of
\* the deque.  The clock is not modelled: any number of the oldest
\* responses may have expired.
Expire(rs) == {SubSeq(rs, k + 1, Len(rs)) : k \in 0..Len(rs)}

\* l.59-78: one turn of "while done < THREADS": out_queue.get(timeout=0.5)
\* gives the oldest item, or raises queue.Empty (passed over) when the queue
\* stays empty; a None is counted, a response is appended; then the old
\* responses are dropped and the totals printed.  The loop, and main, end
\* when done reaches THREADS.
Collect ==
    /\ main_pc = "collect"
    /\ IF done < thread_count
       THEN /\ IF out_queue # <<>>
               THEN /\ out_queue' = Tail(out_queue)
                    /\ IF Head(out_queue) = NoneItem
                       THEN /\ done' = done + 1
                            /\ resps' \in Expire(resps)
                       ELSE /\ done' = done
                            /\ resps' \in Expire(Append(resps, Head(out_queue)))
               ELSE /\ resps' \in Expire(resps)
                    /\ UNCHANGED <<out_queue, done>>
            /\ UNCHANGED main_pc
       ELSE /\ main_pc' = "returned"
            /\ UNCHANGED <<out_queue, done, resps>>
    /\ UNCHANGED <<thread_count, log_lines, url_queue, thread_pc, thread_url,
                   thread_resp, requests_so_far, sentinels_put, fetched_by,
                   sentinels_taken, nones_put>>
    /\ UNCHANGED decoderVars

Main == make_thread_pool \/ fill_url_queue \/ PutSentinels \/ Collect

\* l.22-23: url = self.queue.get(), blocking while the queue is empty
RunGet(w) ==
    /\ thread_pc[w] = "get"
    /\ url_queue # <<>>
    /\ url_queue' = Tail(url_queue)
    /\ thread_url' = [thread_url EXCEPT ![w] = Head(url_queue)]
    /\ IF Head(url_queue) = NoneItem
       THEN /\ thread_pc' = [thread_pc EXCEPT ![w] = "sentinel"]
            /\ sentinels_taken' = [sentinels_taken EXCEPT ![w] = @ + 1]
       ELSE /\ thread_pc' = [thread_pc EXCEPT ![w] = "request"]
            /\ UNCHANGED sentinels_taken
    /\ UNCHANGED <<thread_count, log_lines, out_queue, thread_resp, main_pc,
                   requests_so_far, sentinels_put, done, resps, fetched_by, nones_put>>
    /\ UNCHANGED decoderVars

\* l.24-25: self.out_queue.put(None); return
RunSentinel(w) ==
    /\ thread_pc[w] = "sentinel"
    /\ out_queue' = Append(out_queue, NoneItem)
    /\ nones_put' = [nones_put EXCEPT ![w] = @ + 1]
    /\ thread_pc' = [thread_pc EXCEPT ![w] = "returned"]
    /\ UNCHANGED <<thread_count, log_lines, url_queue, thread_url, thread_resp,
                   main_pc, requests_so_far, sentinels_put, done, resps, fetched_by,
                   sentinels_taken>>
    /\ UNCHANGED decoderVars

\* l.26-27: resp = httpx.get(...); body_len = len(resp.read()).  Nothing in
\* run() catches an exception: it ends the thread.
RunRequest(w) ==
    /\ thread_pc[w] = "request"
    /\ fetched_by' = [fetched_by EXCEPT ![thread_url[w].line] = Append(@, w)]
    /\ \E o \in Outcomes :
           IF o.raise
           THEN /\ thread_pc' = [thread_pc EXCEPT ![w] = "raised"]
                /\ UNCHANGED thread_resp
           ELSE /\ thread_pc' = [thread_pc EXCEPT ![w] = "put"]
                /\ thread_resp' = [thread_resp EXCEPT ![w] = o.resp]
    /\ UNCHANGED <<thread_count, log_lines, url_queue, out_queue, thread_url, main_pc,
                   requests_so_far, sentinels_put, done, resps, sentinels_taken,
                   nones_put>>
    /\ UNCHANGED decoderVars

\* l.28: self.out_queue.put((time.time(), resp.status_code, body_len)), and
\* back to the get
RunPut(w) ==
    /\ thread_pc[w] = "put"
    /\ out_queue' = Append(out_queue, thread_resp[w])
    /\ thread_pc' = [thread_pc EXCEPT ![w] = "get"]
    /\ UNCHANGED <<thread_count, log_lines, url_queue, thread_url, thread_resp,
                   main_pc, requests_so_far, sentinels_put, done, resps, fetched_by,
                   sentinels_taken, nones_put>>
    /\ UNCHANGED decoderVars

\* l.20-28: one step of Requester.run in thread w
Run(w) == RunGet(w) \/ RunSentinel(w) \/ RunRequest(w) \/ RunPut(w)

NextLoad ==
    \/ make_thread_pool
    \/ fill_url_queue
    \/ PutSentinels
    \/ Collect
    \/ \E w \in Threads : RunGet(w)
    \/ \E w \in Threads : RunSentinel(w)
    \/ \E w \in Threads : RunRequest(w)
    \/ \E w \in Threads : RunPut(w)

SpecLoad == InitLoad /\ [][NextLoad]_vars

\* main and every started thread keep being scheduled
FairLoad ==
    /\ SpecLoad
    /\ WF_vars(Main)
    /\ \A w \in 1..MaxThreads : WF_vars(w \in Threads /\ Run(w))


(***************************************************************************)
(* Claims                                                                  *)
(***************************************************************************)

\* C1: on a file made of the header, the initial colour sets, the trailing
\* u32, k complete skin records and t leftover bytes, the skin loop stops
\* exactly at offset = length: with t = 0 the script ends with exactly k
\* skins (dumped as such); with 1 <= t <= 3 it never reaches the dump and
\* fails with BufferUnderrun in the first read of a further read_skin call,
\* after decoding the k skins.
C1_SkinLoopStopsAtExactEnd ==
    /\ (pc = "dump" => offset = Len(buf))
    /\ (src.kind = "whole" =>
           /\ pc # "failed"
           /\ (pc = "skins" => (at_eof(buf, offset) <=> Len(skins) = src.k))
           /\ (pc \in {"dump", "done"} => Len(skins) = src.k)
           /\ (pc = "done" => Len(output.skins) = src.k))
    /\ (src.kind = "leftover" =>
           /\ pc \notin {"dump", "done"}
           /\ ~output.written
           /\ (pc = "read_skin" /\ Len(skins) = src.k => Len(buf) - offset = src.t)
           /\ (pc = "failed" =>
                  /\ err = "BufferUnderrun"
                  /\ failpc = "read_skin"
                  /\ Len(skins) = src.k
                  /\ offset = Len(buf)))

C1_Witness ==
    /\ src.kind = "leftover"
    /\ src.k >= 1
    /\ src.t = 1
    /\ pc = "failed"
    /\ Len(skins) = src.k

\* the length field, the content and the padding of the string record that
\* starts at offset o of b
StrLenAt(b, o)  == b[o + 1] + 256 * b[o + 2] + 65536 * b[o + 3] + 16777216 * b[o + 4]
Remaining(b, o) == Len(b) - o
StrNeeds(b, o)  == 4 + StrLenAt(b, o) + PadLen(StrLenAt(b, o))
StrContent(b, o) == SubSeq(b, o + 5, o + 4 + StrLenAt(b, o))
StrPadding(b, o) == SubSeq(b, o + 5 + StrLenAt(b, o), o + StrNeeds(b, o))

\* C2 (as claimed): every cursor primitive called with fewer bytes remaining
\* than it requires fails with BufferUnderrun: read_u32 and read_f32 require
\* 4 bytes, read_string requires 4 + n + ((4 - n mod 4) mod 4) bytes.
C2_UnderrunWheneverShort ==
    /\ (call.op \in {"read_u32", "read_f32"} /\ Remaining(buf, call.off0) < 4
           => ~call.ok /\ call.err = "BufferUnderrun")
    /\ (call.op = "read_string" /\ Remaining(buf, call.off0) < 4
           => ~call.ok /\ call.err = "BufferUnderrun")
    /\ (call.op = "read_string" /\ Remaining(buf, call.off0) >= 4
           /\ Remaining(buf, call.off0) < StrNeeds(buf, call.off0)
           => ~call.ok /\ call.err = "BufferUnderrun")

\* C3: read_string on a buffer that holds the whole record (length n, n
\* valid UTF-8 bytes, padding) advances the offset by 4 + n + pad; with
\* n mod 4 = 0 it succeeds and reads no padding; otherwise it returns the
\* n-byte string iff all padding bytes are zero and fails with
\* InvalidPadding if any is nonzero.
C3_ReadStringWholeRecord ==
    LET o == call.off0
    IN  (/\ call.op = "read_string"
         /\ Remaining(buf, o) >= 4
         /\ Remaining(buf, o) >= StrNeeds(buf, o)
         /\ utf8_decode(StrContent(buf, o)).ok)
        =>
        LET n       == StrLenAt(buf, o)
            zeroPad == \A i \in 1..Len(StrPadding(buf, o)) : StrPadding(buf, o)[i] = 0
        IN  /\ offset = o + 4 + n + PadLen(n)
            /\ Len(StrPadding(buf, o)) = (IF n % 4 = 0 THEN 0 ELSE 4 - (n % 4))
            /\ (n % 4 = 0 => call.ok)
            /\ (call.ok <=> zeroPad)
            /\ (call.ok => call.val = utf8_decode(StrContent(buf, o)).cps
                           /\ Len(StrContent(buf, o)) = n)
            /\ (~zeroPad => call.err = "InvalidPadding")

C3_Witness ==
    /\ call.op = "read_string"
    /\ call.off0 = 0
    /\ Len(buf) >= 12
    /\ StrLenAt(buf, 0) = 5
    /\ call.ok
    /\ offset = 12
    /\ Len(call.val) = 5

\* C4: on any sequence of cursor calls, 0 <= offset <= length always; the
\* offset never decreases; at_eof leaves the offset alone and answers true
\* iff offset = length.
C4_CursorInvariant ==
    /\ [](/\ 0 <= offset
          /\ offset <= Len(buf)
          /\ (call.op = "none" => offset = 0)
          /\ (call.op = "at_eof" => (call.val <=> offset = Len(buf))))
    /\ [][/\ offset' >= offset
          /\ (call'.op = "at_eof" => offset' = offset)]_vars

C4_Witness ==
    /\ call.op = "read_string"
    /\ ~call.ok
    /\ call.off0 < offset
    /\ offset = Len(buf)
    /\ offset % 4 # 0


DistinctKeys(ws) == \A i, j \in 1..Len(ws) : ws[i].k = ws[j].k => i = j

\* C5 (as claimed): for slot_count pairwise-distinct slot names, whatever
\* they are, the colour set returned by read_set has exactly slot_count slot
\* entries, each with the colour read for it, in read order, plus the
\* trailing colour kept apart from them.
C5_LastKeptApartFromSlots ==
    (setres.done /\ DistinctKeys(setres.log)) =>
        /\ Len(setres.colors) = setres.n + 1
        /\ \A i \in 1..setres.n : setres.colors[i] = setres.log[i]
        /\ setres.colors[setres.n + 1] = [k |-> KeyLast, v |-> setres.lastc]

\* C6: a file on which some read came up short, or on which a read raised,
\* never yields a document: the script ends failed with nothing written;
\* what is written is the fully read document, at the end of the file.
C6_NoDocumentFromMalformedStream ==
    /\ (short => pc \notin {"skins", "dump", "done"} /\ ~output.written)
    /\ (err # "none" <=> pc = "failed")
    /\ (pc = "failed" =>
           /\ ~output.written
           /\ err \in {"BufferUnderrun", "InvalidEncoding", "InvalidPadding"})
    /\ (src.kind = "cut" /\ src.sets = 0 /\ src.k = 0 => pc \notin {"dump", "done"})
    /\ (output.written =>
           /\ pc = "done"
           /\ ~short
           /\ offset = Len(buf)
           /\ Len(unk) = HeaderWords
           /\ Len(initial_sets) = set_count
           /\ output.global = initial_sets
           /\ output.skins = skins)
    /\ (pc = "done" => output.written)

C6_Witness ==
    /\ pc = "failed"
    /\ short
    /\ err = "InvalidEncoding"
    /\ failpc = "set_slots"
    /\ ~output.written

\* the grammar, written back: struct.pack("<f"), str.encode("utf-8"),
\* strings as length + bytes + zero padding
pack_f32(v) ==
    <<v.fraction % 256, (v.fraction \div 256) % 256,
      (v.exponent % 2) * 128 + v.fraction \div 65536,
      v.sign * 128 + v.exponent \div 2>>

RECURSIVE utf8_encode(_)
utf8_encode(cps) ==
    IF cps = <<>> THEN <<>>
    ELSE LET c == Head(cps)
             h == IF c < 128 THEN <<c>>
                  ELSE IF c < 2048 THEN <<192 + c \div 64, 128 + (c % 64)>>
                  ELSE IF c < 65536
                  THEN <<224 + c \div 4096, 128 + ((c \div 64) % 64), 128 + (c % 64)>>
                  ELSE <<240 + c \div 262144, 128 + ((c \div 4096) % 64),
                         128 + ((c \div 64) % 64), 128 + (c % 64)>>
         IN  h \o utf8_encode(Tail(cps))

EncStr(cps) == EncBytes(utf8_encode(cps))

EncColor(v) == pack_f32(v.r) \o pack_f32(v.g) \o pack_f32(v.b) \o pack_f32(v.a)

IsSlotEntry(e) == e.k # KeyLast

EncColorSet(cs) ==
    LET slots == SelectSeq(cs, IsSlotEntry)
        trail == SelectSeq(cs, LAMBDA e : e.k = KeyLast)
    IN  EncU32(Len(slots))
        \o Concat([i \in 1..Len(slots) |-> EncStr(slots[i].k) \o EncColor(slots[i].v)])
        \o Concat([i \in 1..Len(trail) |-> EncColor(trail[i].v)])

EncSkin(sk) ==
    EncStr(sk.name) \o EncU32(sk.zone) \o EncU32(sk.is_blocked)
    \o EncU32(sk.is_toww) \o EncU32(sk.is_boss)
    \o EncU32(Len(sk.skins))
    \o Concat([i \in 1..Len(sk.skins) |-> EncStr(sk.skins[i])])
    \o EncU32(Len(sk.sets))
    \o Concat([i \in 1..Len(sk.sets) |-> EncColorSet(sk.sets[i])])
    \o EncU32(sk.last)

EncDocument ==
    Concat([i \in 1..Len(unk) |-> EncU32(unk[i])])
    \o EncU32(Len(initial_sets))
    \o Concat([i \in 1..Len(initial_sets) |-> EncColorSet(initial_sets[i])])
    \o EncU32(last)
    \o Concat([i \in 1..Len(skins) |-> EncSkin(skins[i])])

\* C7 (as claimed): every stream the script decodes to the end is
\* reproduced exactly by writing the decoded document back by the grammar.
C7_RoundTrip == pc = "done" => EncDocument = buf

\* C7 (amended): the same, for the streams in which no colour set writes a
\* dict key twice (slot names pairwise distinct and none equal to "last")
\* and no colour component is a signalling NaN.
C7_RoundTripWhenNothingIsLost == (pc = "done" /\ ~lossy) => EncDocument = buf

C7_Witness ==
    /\ pc = "done"
    /\ ~lossy
    /\ Len(initial_sets) >= 1
    /\ Len(initial_sets[1]) = 3
    /\ EncDocument = buf

\* the keys of ws in the order of their first write
RECURSIVE FirstKeys(_)
FirstKeys(ws) ==
    IF ws = <<>> THEN <<>>
    ELSE LET init == FirstKeys(SubSeq(ws, 1, Len(ws) - 1))
             k    == ws[Len(ws)].k
         IN  IF \E i \in 1..Len(init) : init[i] = k THEN init ELSE Append(init, k)

LastWrite(ws, k) ==
    LET i == CHOOSE i \in 1..Len(ws) :
                 ws[i].k = k /\ \A j \in (i + 1)..Len(ws) : ws[j].k # k
    IN  ws[i].v

RECURSIVE PairsLen(_)
PairsLen(ws) ==
    IF ws = <<>> THEN 0
    ELSE 4 + Len(utf8_encode(Head(ws).k)) + PadLen(Len(utf8_encode(Head(ws).k))) + 16
         + PairsLen(Tail(ws))

\* the slot names that occur in more than one of the pairs ws
Repeated(ws) == {ws[i].k : i \in {i \in 1..Len(ws) : \E j \in 1..Len(ws) : j # i /\ ws[j].k = ws[i].k}}

\* C8 (as claimed): a slot name read more than once is no error: read_set
\* returns, has read all slot_count pairs and the trailing colour from the
\* file, the mapping holds exactly one entry for every repeated name, with
\* the colour of the last pair read under that name, and the slot entries
\* stand in the order in which the names were first read.
C8_DuplicateSlotOverwrites ==
    /\ (src.kind = "whole" => pc # "failed")
    /\ (setres.done =>
           /\ Len(setres.log) = setres.n
           /\ setres.off1 - setres.off0 = 4 + PairsLen(setres.log) + 16
           /\ Len(setres.colors) >= Len(FirstKeys(setres.log))
           /\ \A i \in 1..Len(FirstKeys(setres.log)) :
                  setres.colors[i].k = FirstKeys(setres.log)[i]
           /\ \A k \in Repeated(setres.log) :
                  /\ Cardinality({i \in 1..Len(setres.colors) : setres.colors[i].k = k}) = 1
                  /\ \A i \in 1..Len(setres.colors) :
                         setres.colors[i].k = k =>
                             setres.colors[i].v = LastWrite(setres.log, k))


\* positions whose step only tests or calls; the step of every other
\* position starts with a read
ControlPositions == {"initial_sets", "skins", "skin_sets", "dump"}

Terminated == pc \in {"done", "failed"}

Rank == IF Terminated THEN 0 ELSE IF pc \in ControlPositions /\ pc # "dump" THEN 2 ELSE 1

Variant == (Len(buf) - offset) + Rank

\* C9: the script terminates on every file, returning a document or
\* failing: every step that reads strictly advances the offset or fails,
\* whatever the counts (here 2^24 and more on a file of a few hundred
\* bytes), every step decreases a measure that is a natural number, the
\* offset never passes the end of the file, and the end is reached.
C9_DecodeTerminates ==
    /\ [][Variant' < Variant]_vars
    /\ [][(pc \notin ControlPositions) => (offset' > offset \/ pc' = "failed")]_vars
    /\ [](offset <= Len(buf) /\ Variant >= 0)
    /\ <>Terminated

C9_Witness ==
    /\ pc = "failed"
    /\ slots_left >= 16777216
    /\ Len(setres.log) >= 1
    /\ offset = Len(buf)

\* C10: whenever the script tests at_eof the offset is a multiple of 4 (as
\* it is at every position reached without a short read); a read that came
\* up short leaves the offset at the end of the file with a 4-byte read
\* next, which fails; so the script succeeds only on a file whose length is
\* a multiple of 4 and at least 4 * (11 + 2) = 52.
C10_AlignedAtEofTest ==
    /\ (pc = "skins" => offset % 4 = 0 /\ ~short)
    /\ (~short /\ pc # "failed" => offset % 4 = 0)
    /\ (short /\ pc # "failed" => pc = "skin_names" /\ offset = Len(buf))
    /\ (pc \in {"dump", "done"} =>
           /\ Len(buf) % 4 = 0
           /\ Len(buf) >= 4 * (HeaderWords + 2)
           /\ offset = Len(buf))

C10_Witness ==
    /\ pc = "skins"
    /\ Len(skins) = 1
    /\ Len(skins[1].name) = 5
    /\ offset % 4 = 0
    /\ offset < Len(buf)

\* C11 (as claimed): whatever the interleaving and whatever each request
\* does (a response or a raised error), no thread takes more than one None
\* from url_queue or puts more than one None on out_queue, no line is
\* requested twice or by a thread that has already taken its None, and
\* eventually every thread has taken one None and put one None, every
\* enqueued line has been requested once, and main has counted
\* done = THREADS and left its loop.
C11_ShutdownProtocol ==
    /\ [](\A w \in Threads : sentinels_taken[w] <= 1 /\ nones_put[w] <= 1)
    /\ [](\A u \in DOMAIN fetched_by : Len(fetched_by[u]) <= 1)
    /\ [](\A w \in Threads :
              thread_pc[w] \in {"request", "put"} => sentinels_taken[w] = 0)
    /\ <>(/\ main_pc = "returned"
          /\ done = thread_count
          /\ \A w \in 1..thread_count : sentinels_taken[w] = 1 /\ nones_put[w] = 1
          /\ \A u \in 1..requests_so_far : Len(fetched_by[u]) = 1)

====
